---- MODULE Spec2Model ----
(***************************************************************************)
(* The local object store of dio (util.go): SHA-256 identities of commits  *)
(* and trees, the content-addressed files/ directory, and the per-database *)
(* index and branch files under meta/, together with the push command's    *)
(* input validation.                                                       *)
(*                                                                         *)
(* A Go string or []byte is a sequence of tokens.  A token is one byte     *)
(* (a one-character string, or NUL / XFF for the bytes 0x00 and an         *)
(* invalid UTF-8 byte) or an opaque run of bytes that holds no delimiter:  *)
(* a 64-character hex digest, or a formatted date.                         *)
(***************************************************************************)
EXTENDS Naturals, Sequences, FiniteSets, TLC

NUL == "NUL"
XFF == "XFF"
UFFFD == "UFFFD"

\* The single bytes that occur in the model.
Byte ==
  {"a", "b", "c", "d", "e", "h", "i", "m", "n", "o", "p", "r", "s", "t", "u",
   "x", " ", "<", ">", "\n", NUL, XFF}

EmptyStr == << >>

\* ------------------------------------------------------------------------
\* HashingEngine

\* sha256.Sum256 followed by hex.EncodeToString: one digest token per input,
\* distinct inputs giving distinct digests (collision resistance).
Sha256(b) == "sha256:" \o ToString(b)

\* time.Time.Format(time.UnixDate): "Mon Jan _2 15:04:05 MST 2006", which
\* prints whole seconds only.
FormatUnixDate(ts) == << "date:" \o ToString(ts.sec) >>

\* A committer line keyed on the committer's name instead of the email.
CommitBufferByName(c) ==
  <<"t", "r", "e", "e", " ">> \o c.Tree \o <<"\n">>
  \o (IF c.Parent # EmptyStr
        THEN <<"p", "a", "r", "e", "n", "t", " ">> \o c.Parent \o <<"\n">>
        ELSE << >>)
  \o <<"a", "u", "t", "h", "o", "r", " ">> \o c.AuthorName \o <<" ", "<">>
  \o c.AuthorEmail \o <<">", " ">> \o FormatUnixDate(c.Timestamp) \o <<"\n">>
  \o (IF c.CommitterName # EmptyStr
        THEN <<"c", "o", "m", "m", "i", "t", "t", "e", "r", " ">>
             \o c.CommitterName \o <<" ", "<">> \o c.CommitterEmail
             \o <<">", " ">> \o FormatUnixDate(c.Timestamp) \o <<"\n">>
        ELSE << >>)
  \o <<"\n">> \o c.Message
  \o <<NUL>>

\* The buffer createCommitID hashes (b.Bytes()).
CommitBuffer(c) ==
  <<"t", "r", "e", "e", " ">> \o c.Tree \o <<"\n">>
  \o (IF c.Parent # EmptyStr
        THEN <<"p", "a", "r", "e", "n", "t", " ">> \o c.Parent \o <<"\n">>
        ELSE << >>)
  \o <<"a", "u", "t", "h", "o", "r", " ">> \o c.AuthorName \o <<" ", "<">>
  \o c.AuthorEmail \o <<">", " ">> \o FormatUnixDate(c.Timestamp) \o <<"\n">>
  \o (IF c.CommitterEmail # EmptyStr
        THEN <<"c", "o", "m", "m", "i", "t", "t", "e", "r", " ">>
             \o c.CommitterName \o <<" ", "<">> \o c.CommitterEmail
             \o <<">", " ">> \o FormatUnixDate(c.Timestamp) \o <<"\n">>
        ELSE << >>)
  \o <<"\n">> \o c.Message
  \o <<NUL>>

createCommitID(c) == << Sha256(CommitBuffer(c)) >>

\* An entry written without its name.
EntryBytesNoName(j) == j.AType \o <<NUL>> \o j.ShaSum \o <<NUL>> \o <<"\n">>

\* One entry of the buffer createDBTreeID hashes.
EntryBytes(j) == j.AType \o <<NUL>> \o j.ShaSum \o <<NUL>> \o j.Name \o <<"\n">>

\* The buffer createDBTreeID hashes: the entries in slice order.
RECURSIVE TreeBuffer(_)
TreeBuffer(entries) ==
  IF entries = << >> THEN << >>
  ELSE EntryBytes(Head(entries)) \o TreeBuffer(Tail(entries))

createDBTreeID(entries) == << Sha256(TreeBuffer(entries)) >>

\* ------------------------------------------------------------------------
\* Serialized records (encoding/json)

\* Characters of a hex digest.
HexLen == 64

\* Bytes json.Marshal writes for one token of a string: a newline as the two
\* characters backslash-n; '<', '>', the null byte and an invalid UTF-8 byte
\* as six-character backslash-u escapes (the invalid byte as the escape of
\* U+FFFD); U+FFFD itself as its three bytes of UTF-8.
EscWidth(t) ==
  IF t = "\n" THEN 2
  ELSE IF t \in {"<", ">", NUL, XFF} THEN 6
  ELSE IF t = UFFFD THEN 3
  ELSE IF t \in Byte THEN 1
  ELSE HexLen

RECURSIVE SumWidth(_)
SumWidth(s) == IF s = << >> THEN 0 ELSE EscWidth(Head(s)) + SumWidth(Tail(s))

StrJsonLen(s) == 2 + SumWidth(s)

\* time.Time marshals as RFC 3339 in UTC, nanoseconds printed when present.
TimeJsonLen(ts) == 22 + (IF ts.nsec = 0 THEN 0 ELSE 10)

\* One "key": value line of an indented object at depth d (d spaces deeper
\* than the object's brace, plus the comma or not).
FieldLen(d, keyLen, valLen, isLast) ==
  (d + 1) + (keyLen + 2) + 2 + valLen + (IF isLast THEN 0 ELSE 1) + 1

\* json.MarshalIndent(c, "", " ") of a commit whose brace stands at depth d.
CommitJsonLen(c, d) ==
  2 + FieldLen(d, 11, StrJsonLen(c.AuthorEmail), FALSE)
    + FieldLen(d, 10, StrJsonLen(c.AuthorName), FALSE)
    + FieldLen(d, 14, StrJsonLen(c.CommitterEmail), FALSE)
    + FieldLen(d, 13, StrJsonLen(c.CommitterName), FALSE)
    + FieldLen(d, 2, StrJsonLen(c.ID), FALSE)
    + FieldLen(d, 7, StrJsonLen(c.Message), FALSE)
    + FieldLen(d, 6, StrJsonLen(c.Parent), FALSE)
    + FieldLen(d, 9, TimeJsonLen(c.Timestamp), FALSE)
    + FieldLen(d, 4, StrJsonLen(c.Tree), TRUE)
    + d + 1

EntryJsonLen(j, d) ==
  2 + FieldLen(d, 5, StrJsonLen(j.AType), FALSE)
    + FieldLen(d, 6, StrJsonLen(j.ShaSum), FALSE)
    + FieldLen(d, 4, StrJsonLen(j.Name), TRUE)
    + d + 1

\* An indented array at depth d whose elements take lens[i] bytes each; a nil
\* or empty slice of the model is written as null.
RECURSIVE SumLens(_)
SumLens(lens) == IF lens = << >> THEN 0 ELSE Head(lens) + SumLens(Tail(lens))

ArrayJsonLen(lens, d) ==
  IF lens = << >> THEN 4
  ELSE 2 + SumLens([i \in 1..Len(lens) |-> (d + 1) + lens[i] + 1])
         + (Len(lens) - 1) + d + 1

TreeJsonLen(t) ==
  2 + FieldLen(0, 2, StrJsonLen(t.ID), FALSE)
    + FieldLen(0, 7,
               ArrayJsonLen([i \in 1..Len(t.Entries) |->
                               EntryJsonLen(t.Entries[i], 2)], 1),
               TRUE)
    + 1

\* What json.Unmarshal reads back from a string json.Marshal wrote: invalid
\* UTF-8 bytes have become U+FFFD.
CoerceUTF8(s) == [i \in 1..Len(s) |-> IF s[i] = XFF THEN UFFFD ELSE s[i]]

CoerceCommit(c) ==
  [ ID |-> CoerceUTF8(c.ID), Tree |-> CoerceUTF8(c.Tree),
    Parent |-> CoerceUTF8(c.Parent),
    AuthorName |-> CoerceUTF8(c.AuthorName),
    AuthorEmail |-> CoerceUTF8(c.AuthorEmail),
    CommitterName |-> CoerceUTF8(c.CommitterName),
    CommitterEmail |-> CoerceUTF8(c.CommitterEmail),
    Timestamp |-> c.Timestamp, Message |-> CoerceUTF8(c.Message) ]

CoerceEntry(j) ==
  [ AType |-> CoerceUTF8(j.AType), ShaSum |-> CoerceUTF8(j.ShaSum),
    Name |-> CoerceUTF8(j.Name) ]

\* The bytes of a file: raw bytes, or the JSON text of a record, kept as the
\* record the text decodes to together with the text's length.
RawFile(db) == [ kind |-> "raw", data |-> db, size |-> Len(db) ]

MarshalCommit(c) ==
  [ kind |-> "commit", data |-> CoerceCommit(c), size |-> CommitJsonLen(c, 0) ]

MarshalTree(t) ==
  [ kind |-> "tree",
    data |-> [ ID |-> CoerceUTF8(t.ID),
               Entries |-> [i \in 1..Len(t.Entries) |-> CoerceEntry(t.Entries[i])] ],
    size |-> TreeJsonLen(t) ]

\* The length of a file under meta/ is never asked for.
MarshalIndex(index) ==
  [ kind |-> "index",
    data |-> [i \in 1..Len(index) |-> CoerceCommit(index[i])] ]

CoerceBranch(b) == [ Name |-> CoerceUTF8(b.Name), Commit |-> CoerceUTF8(b.Commit) ]

MarshalBranches(branches) ==
  [ kind |-> "branches",
    data |-> [i \in 1..Len(branches) |-> CoerceBranch(branches[i])] ]

\* ------------------------------------------------------------------------
\* Field values of the commits and tree entries that are hashed.

TreeRefs == { <<"a">>, <<"a", "\n", "p", "a", "r", "e", "n", "t", " ", "b">> }
ParentRefs == { EmptyStr, <<"b">> }
Names == { <<"n">>, <<"n", " ", "<", "e", ">">> }
Emails == { <<"e">>, <<"e", ">", " ", "<", "e">> }
CommitterNames == { EmptyStr, <<"n">> }
CommitterEmails == { EmptyStr, <<"e">> }
Timestamps == { [sec |-> 0, nsec |-> 0], [sec |-> 0, nsec |-> 1], [sec |-> 1, nsec |-> 0] }
Messages == { EmptyStr, <<"m">> }

\* The commit struct as util.go uses it; ID is left empty until it is computed.
HashedCommits ==
  [ ID : {EmptyStr}, Tree : TreeRefs, Parent : ParentRefs,
    AuthorName : Names, AuthorEmail : Emails,
    CommitterName : CommitterNames, CommitterEmail : CommitterEmails,
    Timestamp : Timestamps, Message : Messages ]

\* Tree entries (dbTreeEntry): a name may hold any byte.
HashedEntries ==
  [ AType : { <<"d">>, <<"d", NUL, "s">> }, ShaSum : { <<"s">> },
    Name : { <<"n">>, <<"n", NUL>>, <<"s", NUL, "n">>,
             <<"n", "\n", "d", NUL, "s", NUL, "n">> } ]

MaxEntries == 3

EntryLists == UNION { [1..n -> HashedEntries] : n \in 0..MaxEntries }

Reorderings(l) ==
  { [i \in 1..Len(l) |-> l[p[i]]] :
      p \in { q \in [1..Len(l) -> 1..Len(l)] :
                \A i, j \in 1..Len(l) : q[i] = q[j] => i = j } }

VARIABLES cid, tid, files, meta, dirs, last, prev, before, procs, locks, done, push

vars ==
  << cid, tid, files, meta, dirs, last, prev, before, procs, locks, done, push >>

storeVars == << files, meta, dirs, last, prev, before, procs, locks, done >>

callVars == << last, prev, before >>

CidIdle == [pc |-> "idle"]
TidIdle == [pc |-> "idle"]

NoCall == [ op |-> "none" ]
NoFiles == << >>

NumProcs == 2

Procs == 1..NumProcs

Idle == [ pc |-> "idle" ]

StoreIdle ==
  /\ push = [ pc |-> "idle" ]
  /\ procs = [ p \in Procs |-> Idle ]
  /\ locks = {}
  /\ done = << >>
  /\ files = NoFiles
  /\ meta = NoFiles
  /\ dirs = {}
  /\ last = NoCall
  /\ prev = NoCall
  /\ before = NoFiles

\* ------------------------------------------------------------------------
\* createCommitID applied to two commits.

InitCommitID ==
  /\ cid \in [ pc : {"start"}, c1 : HashedCommits, c2 : HashedCommits ]
  /\ tid = TidIdle
  /\ StoreIdle

HashCommits ==
  /\ cid.pc = "start"
  /\ cid' = [ pc |-> "done", c1 |-> cid.c1, c2 |-> cid.c2,
              buf1 |-> CommitBuffer(cid.c1), buf2 |-> CommitBuffer(cid.c2),
              id1 |-> createCommitID(cid.c1), id2 |-> createCommitID(cid.c2) ]
  /\ UNCHANGED << push, tid, storeVars >>

NextCommitID == HashCommits

SpecCommitID == InitCommitID /\ [][NextCommitID]_vars

\* ------------------------------------------------------------------------
\* createDBTreeID applied to an entry list and to a permutation of it.

InitTreeID ==
  /\ \E l \in EntryLists : \E m \in Reorderings(l) :
       tid = [ pc |-> "start", e1 |-> l, e2 |-> m ]
  /\ cid = CidIdle
  /\ StoreIdle

HashTrees ==
  /\ tid.pc = "start"
  /\ tid' = [ pc |-> "done", e1 |-> tid.e1, e2 |-> tid.e2,
              buf1 |-> TreeBuffer(tid.e1), buf2 |-> TreeBuffer(tid.e2),
              id1 |-> createDBTreeID(tid.e1), id2 |-> createDBTreeID(tid.e2) ]
  /\ UNCHANGED << push, cid, storeVars >>

NextTreeID == HashTrees

SpecTreeID == InitTreeID /\ [][NextTreeID]_vars

\* ------------------------------------------------------------------------
\* ObjectStore: the files/ directory under STORAGEDIR.
\* files maps the name of each file in files/ to its bytes; dirs holds the
\* directories that exist.  Disk writes succeed unless the path cannot name a
\* file.

\* Database files handed to storeDatabase.
Abc == <<"a", "b", "c">>
Abcd == <<"a", "b", "c", "d">>

\* A tree record whose ID names a blob's digest; its JSON text is as long as
\* that blob.
ForgedTreeLen == TreeJsonLen([ ID |-> << Sha256(Abc) >>, Entries |-> << >> ])
Filler == [i \in 1..ForgedTreeLen |-> "x"]
ForgedTree == [ ID |-> << Sha256(Filler) >>, Entries |-> << >> ]

GoodEntries ==
  << [ AType |-> <<"d", "b">>, ShaSum |-> << Sha256(Abc) >>, Name |-> <<"a">> ] >>
GoodTree == [ ID |-> createDBTreeID(GoodEntries), Entries |-> GoodEntries ]

Blobs == { Abc, Abcd, Filler }
Trees == { GoodTree, ForgedTree }

WithID(c) == [ c EXCEPT !.ID = createCommitID(c) ]

BaseCommit ==
  [ ID |-> EmptyStr, Tree |-> GoodTree.ID, Parent |-> EmptyStr,
    AuthorName |-> <<"n">>, AuthorEmail |-> <<"e">>,
    CommitterName |-> EmptyStr, CommitterEmail |-> EmptyStr,
    Timestamp |-> [sec |-> 0, nsec |-> 0], Message |-> <<"m">> ]

\* A commit with every required field, and one that differs from it in the
\* committer name only; both carry the ID createCommitID gives them.
GoodCommit == WithID(BaseCommit)
NamedCommit == WithID([ BaseCommit EXCEPT !.CommitterName = <<"n">> ])

\* Commits that lack a required field, with the ID createCommitID gives them.
NoMessage == WithID([ BaseCommit EXCEPT !.Message = EmptyStr ])
NoTreeRef == WithID([ BaseCommit EXCEPT !.Tree = EmptyStr ])
NoAuthor == WithID([ BaseCommit EXCEPT !.AuthorName = EmptyStr ])
NoEmail == WithID([ BaseCommit EXCEPT !.AuthorEmail = EmptyStr ])

\* Commits whose ID field the caller filled in: with a blob's digest, and
\* with nothing.
ForgedCommit == [ BaseCommit EXCEPT !.ID = << Sha256(Abc) >> ]
UnnamedCommit == BaseCommit

Incomplete == { NoMessage, NoTreeRef, NoAuthor, NoEmail }
Commits == { GoodCommit, NamedCommit, ForgedCommit, UnnamedCommit } \cup Incomplete

Exists(fs, name) == name \in DOMAIN fs

\* ioutil.WriteFile(filepath.Join(STORAGEDIR, "files", name), data, perm):
\* creates or truncates the file and writes data.  With an empty name the
\* path is the directory itself and the write fails.
WriteFile(fs, name, data) ==
  IF name = EmptyStr THEN fs
  ELSE [ n \in DOMAIN fs \cup {name} |-> IF n = name THEN data ELSE fs[n] ]

WriteFails(name) == name = EmptyStr

\* os.Stat of the directory, os.MkdirAll when it fails.
MkdirAll(ds, dir) == ds \cup {dir}

\* storeDatabase with the size test inverted.
storeDatabaseSameSize(fs, db) ==
  LET t == << Sha256(db) >>
  IN  IF ~Exists(fs, t) THEN WriteFile(fs, t, RawFile(db))
      ELSE IF Len(db) = fs[t].size THEN WriteFile(fs, t, RawFile(db))
      ELSE fs

\* storeDatabase: the files after the call.
storeDatabase(fs, db) ==
  LET t == << Sha256(db) >>
  IN  IF ~Exists(fs, t) THEN WriteFile(fs, t, RawFile(db))
      ELSE IF Len(db) # fs[t].size THEN WriteFile(fs, t, RawFile(db))
      ELSE fs

\* storeCommit: the files after the call.
storeCommit(fs, c) == WriteFile(fs, c.ID, MarshalCommit(c))

\* storeTree: the files after the call.
storeTree(fs, t) == WriteFile(fs, t.ID, MarshalTree(t))

Call(op, arg, ret, err) == [ op |-> op, arg |-> arg, ret |-> ret, err |-> err ]

Record(call, fs) ==
  /\ files' = fs
  /\ before' = files
  /\ last' = call
  /\ prev' = last
  /\ dirs' = MkdirAll(dirs, "files")
  /\ UNCHANGED << meta, procs, locks, done >>

StoreDatabase ==
  \E db \in Blobs :
    /\ Record(Call("storeDatabase", db, << Sha256(db) >>, FALSE),
              storeDatabase(files, db))
    /\ UNCHANGED << push, cid, tid >>

StoreCommitOf(cs) ==
  \E c \in cs :
    /\ Record(Call("storeCommit", c, EmptyStr, WriteFails(c.ID)),
              storeCommit(files, c))
    /\ UNCHANGED << push, cid, tid >>

StoreTreeOf(ts) ==
  \E t \in ts :
    /\ Record(Call("storeTree", t, EmptyStr, WriteFails(t.ID)),
              storeTree(files, t))
    /\ UNCHANGED << push, cid, tid >>

StoreCommit == StoreCommitOf(Commits)

StoreTree == StoreTreeOf(Trees)

InitStore ==
  /\ StoreIdle
  /\ cid = CidIdle
  /\ tid = TidIdle

NextStore == StoreDatabase \/ StoreCommit \/ StoreTree

SpecStore == InitStore /\ [][NextStore]_vars

\* The same calls made only with records whose ID field is what
\* createCommitID or createDBTreeID gives for them.
Computed(cs) == { c \in cs : c.ID = createCommitID(c) }

StoreComputedCommit == StoreCommitOf(Computed(Commits))

StoreComputedTree == StoreTreeOf({ t \in Trees : t.ID = createDBTreeID(t.Entries) })

NextComputed == StoreDatabase \/ StoreComputedCommit \/ StoreComputedTree

SpecComputed == InitStore /\ [][NextComputed]_vars

\* ------------------------------------------------------------------------
\* Index and BranchTable: meta/<dbPath>/index and meta/<dbPath>/branches.
\* meta maps << dbPath, "index" >> and << dbPath, "branches" >> to the bytes
\* of the file, for the files that exist.

DbPaths == { "db1", "db2" }

MaxIndexLen == 2

\* A commit whose message holds a byte that is not valid UTF-8.
RawMessage == WithID([ BaseCommit EXCEPT !.Message = <<"m", XFF>> ])

IndexCommits == { GoodCommit, RawMessage }

BranchNames == { <<"m", "a", "s", "t", "e", "r">>, <<"d", "e", "v">> }
BranchHeads == { GoodCommit.ID }

IndexFile(d) == << d, "index" >>
BranchesFile(d) == << d, "branches" >>
MetaDir(d) == "meta/" \o d

\* getIndex: ioutil.ReadFile, then json.Unmarshal into []commit.
getIndex(m, d) ==
  IF ~Exists(m, IndexFile(d)) THEN [ index |-> << >>, err |-> TRUE ]
  ELSE IF m[IndexFile(d)].kind # "index" THEN [ index |-> << >>, err |-> TRUE ]
  ELSE [ index |-> m[IndexFile(d)].data, err |-> FALSE ]

\* storeIndex: the files of meta/ after the call.
storeIndex(m, d, index) == WriteFile(m, IndexFile(d), MarshalIndex(index))

\* storeBranches: the files of meta/ after the call.
storeBranches(m, d, branches) ==
  WriteFile(m, BranchesFile(d), MarshalBranches(branches))

\* The branch table's reader, the counterpart of getIndex.
getBranches(m, d) ==
  IF ~Exists(m, BranchesFile(d)) THEN [ branches |-> << >>, err |-> TRUE ]
  ELSE IF m[BranchesFile(d)].kind # "branches" THEN [ branches |-> << >>, err |-> TRUE ]
  ELSE [ branches |-> m[BranchesFile(d)].data, err |-> FALSE ]

\* Index.append: the list read by getIndex, empty when there is none, with
\* the commit added at the end.
Appended(m, d, c) ==
  LET r == getIndex(m, d)
  IN  Append(IF r.err THEN << >> ELSE r.index, c)

\* The branch table with the named branch pointed at a commit: replaced in
\* place when the name is there, added at the end otherwise.
WithBranch(branches, name, commit) ==
  IF \E i \in 1..Len(branches) : branches[i].Name = name
    THEN [ i \in 1..Len(branches) |->
             IF branches[i].Name = name
               THEN [ Name |-> name, Commit |-> commit ] ELSE branches[i] ]
    ELSE Append(branches, [ Name |-> name, Commit |-> commit ])

Updated(m, d, name, commit) ==
  LET r == getBranches(m, d)
  IN  WithBranch(IF r.err THEN << >> ELSE r.branches, name, commit)

RecordMeta(call, m, d) ==
  /\ meta' = m
  /\ before' = meta
  /\ last' = call
  /\ dirs' = MkdirAll(dirs, MetaDir(d))
  /\ UNCHANGED << push, cid, tid, files, prev, procs, locks, done >>

AppendIndex ==
  \E d \in DbPaths, c \in IndexCommits :
    /\ Len(getIndex(meta, d).index) < MaxIndexLen
    /\ RecordMeta(Call("append", [ d |-> d, c |-> c ], EmptyStr, FALSE),
                  storeIndex(meta, d, Appended(meta, d, c)), d)

GetIndex ==
  \E d \in DbPaths :
    /\ last' = Call("getIndex", [ d |-> d ], getIndex(meta, d).index,
                    getIndex(meta, d).err)
    /\ before' = meta
    /\ UNCHANGED << push, cid, tid, files, meta, dirs, prev, procs, locks, done >>

SetBranch ==
  \E d \in DbPaths, name \in BranchNames, commit \in BranchHeads :
    RecordMeta(Call("setBranch", [ d |-> d, name |-> name, commit |-> commit ],
                    EmptyStr, FALSE),
               storeBranches(meta, d, Updated(meta, d, name, commit)), d)

GetBranches ==
  \E d \in DbPaths :
    /\ last' = Call("getBranches", [ d |-> d ], getBranches(meta, d).branches,
                    getBranches(meta, d).err)
    /\ before' = meta
    /\ UNCHANGED << push, cid, tid, files, meta, dirs, prev, procs, locks, done >>

InitMeta ==
  /\ StoreIdle
  /\ cid = CidIdle
  /\ tid = TidIdle

NextMeta == AppendIndex \/ GetIndex \/ SetBranch \/ GetBranches

SpecMeta == InitMeta /\ [][NextMeta]_vars

\* ------------------------------------------------------------------------
\* Concurrent invocations of the tool on the same storage root, each running
\* one read-modify-write of a database's index or branch table: getIndex,
\* add a commit, storeIndex; or read the branch table, set a branch,
\* storeBranches.  done[d] is what the finished invocations have asked for:
\* the commits appended, in order of finishing, and the head given to each
\* branch name.

RaceDbs == { "db1" }

NoneDone == [ d \in RaceDbs |-> [ index |-> << >>, heads |-> {} ] ]

Heads == { GoodCommit.ID, RawMessage.ID }

Appending(d) ==
  { p \in Procs : procs[p].pc # "idle" /\ procs[p].kind = "append" /\ procs[p].d = d }

\* An invocation starts: append a commit to d's index, or point a branch of d
\* at a commit.  Its first step is to read, or to take the lock of d's
\* metadata where one is used.
StartAppend(p, first) ==
  \E d \in RaceDbs, c \in IndexCommits :
    /\ procs[p].pc = "idle"
    /\ Len(done[d].index) + Cardinality(Appending(d)) < MaxIndexLen
    /\ procs' = [ procs EXCEPT ![p] =
                    [ pc |-> first, kind |-> "append", d |-> d, c |-> c ] ]
    /\ UNCHANGED << push, cid, tid, files, meta, dirs, callVars, locks, done >>

StartBranch(p, first) ==
  \E d \in RaceDbs, name \in BranchNames, commit \in Heads :
    /\ procs[p].pc = "idle"
    /\ procs' = [ procs EXCEPT ![p] =
                    [ pc |-> first, kind |-> "branch", d |-> d,
                      name |-> name, commit |-> commit ] ]
    /\ UNCHANGED << push, cid, tid, files, meta, dirs, callVars, locks, done >>

\* The exclusive advisory lock on a database's metadata.
Acquire(p) ==
  /\ procs[p].pc = "lock"
  /\ procs[p].d \notin locks
  /\ locks' = locks \cup { procs[p].d }
  /\ procs' = [ procs EXCEPT ![p].pc = "read" ]
  /\ UNCHANGED << push, cid, tid, files, meta, dirs, callVars, done >>

\* getIndex, or the branch table's reader; a missing file reads as empty.
ReadMeta(p) ==
  /\ procs[p].pc = "read"
  /\ procs' = [ procs EXCEPT ![p] =
       [ pc |-> "write", kind |-> procs[p].kind, d |-> procs[p].d,
         new |-> IF procs[p].kind = "append"
                   THEN Appended(meta, procs[p].d, procs[p].c)
                   ELSE Updated(meta, procs[p].d, procs[p].name, procs[p].commit),
         ask |-> procs[p] ] ]
  /\ UNCHANGED << push, cid, tid, files, meta, dirs, callVars, locks, done >>

\* storeIndex, or storeBranches, of the list built from what was read.
WriteMeta(p) ==
  /\ procs[p].pc = "write"
  /\ meta' = IF procs[p].kind = "append"
               THEN storeIndex(meta, procs[p].d, procs[p].new)
               ELSE storeBranches(meta, procs[p].d, procs[p].new)
  /\ dirs' = MkdirAll(dirs, MetaDir(procs[p].d))
  /\ procs' = [ procs EXCEPT ![p].pc = "written" ]
  /\ UNCHANGED << push, cid, tid, files, callVars, locks, done >>

\* The invocation ends; a lock it held is released.
Finish(p) ==
  /\ procs[p].pc = "written"
  /\ locks' = locks \ { procs[p].d }
  /\ done' = [ done EXCEPT ![procs[p].d] =
       IF procs[p].kind = "append"
         THEN [ @ EXCEPT !.index = Append(@, procs[p].ask.c) ]
         ELSE [ @ EXCEPT !.heads =
                  { h \in @ : h[1] # procs[p].ask.name }
                  \cup { << procs[p].ask.name, procs[p].ask.commit >> } ] ]
  /\ procs' = [ procs EXCEPT ![p] = Idle ]
  /\ UNCHANGED << push, cid, tid, files, meta, dirs, callVars >>

InitRace ==
  /\ push = [ pc |-> "idle" ]
  /\ procs = [ p \in Procs |-> Idle ]
  /\ locks = {}
  /\ done = NoneDone
  /\ files = NoFiles
  /\ meta = NoFiles
  /\ dirs = {}
  /\ last = NoCall
  /\ prev = NoCall
  /\ before = NoFiles
  /\ cid = CidIdle
  /\ tid = TidIdle

\* The functions of util.go as they are: nothing is locked.
NextRace ==
  \E p \in Procs :
    \/ StartAppend(p, "read")
    \/ StartBranch(p, "read")
    \/ ReadMeta(p)
    \/ WriteMeta(p)
    \/ Finish(p)

SpecRace == InitRace /\ [][NextRace]_vars

\* The same invocations with each read-modify-write under the lock.
NextLocked ==
  \E p \in Procs :
    \/ StartAppend(p, "lock")
    \/ StartBranch(p, "lock")
    \/ Acquire(p)
    \/ ReadMeta(p)
    \/ WriteMeta(p)
    \/ Finish(p)

SpecLocked == InitRace /\ [][NextLocked]_vars

\* ------------------------------------------------------------------------
\* Object writes step by step.  ioutil.WriteFile opens the file with
\* O_WRONLY|O_CREATE|O_TRUNC, writes the data and closes it; the invocation
\* can die between any two steps, and another invocation can read the file
\* at any moment.

\* The first k bytes of a file's bytes.
Truncated(content, k) ==
  IF k = content.size THEN content
  ELSE IF content.kind = "raw" THEN RawFile(SubSeq(content.data, 1, k))
  ELSE [ kind |-> "partial", data |-> content.data, size |-> k ]

CrashBlobs == { Abcd }
CrashCommits == { GoodCommit }
CrashTrees == { GoodTree }

Writing(p) == procs[p].pc \in { "stat", "open", "write" }

\* A store call begins; the record to write and its file name are fixed by
\* then (json.MarshalIndent, or sha256.Sum256 of the database).
BeginStore(p) ==
  /\ procs[p].pc = "idle"
  /\ \/ \E db \in CrashBlobs :
          procs' = [ procs EXCEPT ![p] =
            [ pc |-> "stat", op |-> "storeDatabase", name |-> << Sha256(db) >>,
              content |-> RawFile(db) ] ]
     \/ \E c \in CrashCommits :
          procs' = [ procs EXCEPT ![p] =
            [ pc |-> "open", op |-> "storeCommit", name |-> c.ID,
              content |-> MarshalCommit(c) ] ]
     \/ \E t \in CrashTrees :
          procs' = [ procs EXCEPT ![p] =
            [ pc |-> "open", op |-> "storeTree", name |-> t.ID,
              content |-> MarshalTree(t) ] ]
  /\ dirs' = MkdirAll(dirs, "files")
  /\ UNCHANGED << push, cid, tid, files, meta, callVars, locks, done >>

\* storeDatabase's os.Stat of the object: write when it is missing or has
\* another size, return the hash otherwise.
StatObject(p) ==
  /\ procs[p].pc = "stat"
  /\ procs' = [ procs EXCEPT ![p] =
       IF ~Exists(files, procs[p].name)
            \/ procs[p].content.size # files[procs[p].name].size
         THEN [ @ EXCEPT !.pc = "open" ]
         ELSE Idle ]
  /\ UNCHANGED << push, cid, tid, files, meta, dirs, callVars, locks, done >>

\* WriteFile opens the file: it exists and is empty.
OpenFile(p) ==
  /\ procs[p].pc = "open"
  /\ files' = WriteFile(files, procs[p].name, Truncated(procs[p].content, 0))
  /\ procs' = [ procs EXCEPT ![p].pc = "write" ]
  /\ UNCHANGED << push, cid, tid, meta, dirs, callVars, locks, done >>

\* Some of the data has reached the file.
WritePart(p) ==
  /\ procs[p].pc = "write"
  /\ \E k \in { 1, procs[p].content.size - 1 } :
       /\ 0 < k /\ k < procs[p].content.size
       /\ files' = WriteFile(files, procs[p].name, Truncated(procs[p].content, k))
  /\ UNCHANGED << push, cid, tid, meta, dirs, callVars, locks, done, procs >>

\* All of the data has reached the file; the call returns.
WriteAll(p) ==
  /\ procs[p].pc = "write"
  /\ files' = WriteFile(files, procs[p].name, procs[p].content)
  /\ procs' = [ procs EXCEPT ![p] = Idle ]
  /\ UNCHANGED << push, cid, tid, meta, dirs, callVars, locks, done >>

\* The invocation dies; what it has written stays.
Crash(p) ==
  /\ Writing(p)
  /\ procs' = [ procs EXCEPT ![p] = Idle ]
  /\ UNCHANGED << push, cid, tid, files, meta, dirs, callVars, locks, done >>

\* Another invocation reads files/<h> (ioutil.ReadFile).
ReadObject ==
  \E h \in { << Sha256(db) >> : db \in CrashBlobs }
           \cup { c.ID : c \in CrashCommits } \cup { t.ID : t \in CrashTrees } :
    /\ last' = IF Exists(files, h) THEN Call("read", h, files[h], FALSE)
               ELSE Call("read", h, EmptyStr, TRUE)
    /\ UNCHANGED << push, cid, tid, files, meta, dirs, prev, before, procs, locks, done >>

InitCrash ==
  /\ StoreIdle
  /\ cid = CidIdle
  /\ tid = TidIdle

NextCrash ==
  \/ \E p \in Procs :
       \/ BeginStore(p)
       \/ StatObject(p)
       \/ OpenFile(p)
       \/ WritePart(p)
       \/ WriteAll(p)
       \/ Crash(p)
  \/ ReadObject

SpecCrash == InitCrash /\ [][NextCrash]_vars

\* ------------------------------------------------------------------------
\* The push command (pushCmd.RunE): what it checks before it uploads.

PushInputs ==
  [ pc : {"start"}, nargs : 0..2, fileExists : BOOLEAN,
    cfgAuthor : {"", "cfg"}, cfgEmail : {"", "cfg@x"},
    flagName : {"", "flag"}, flagEmail : {"", "flag@x"},
    flagMsg : {"", "m"}, flagDB : {"", "name.db"} ]

\* Author name and email: the configuration file's, overridden by the flags.
PushAuthor(in) == IF in.flagName # "" THEN in.flagName ELSE in.cfgAuthor
PushEmail(in) == IF in.flagEmail # "" THEN in.flagEmail ELSE in.cfgEmail

Refused(msg) == [ pc |-> "done", err |-> msg, sent |-> FALSE ]

RunPush ==
  /\ push.pc = "start"
  /\ \E response \in { "errs", "status", "created" } :
       push' =
         IF push.nargs = 0 THEN Refused("No database file specified")
         ELSE IF push.nargs > 1
           THEN Refused("Only one database can be uploaded at a time (for now)")
         ELSE IF ~push.fileExists THEN Refused("stat")
         ELSE IF PushAuthor(push) = "" \/ PushEmail(push) = ""
           THEN Refused("Both author name and email are required!")
         ELSE IF push.flagMsg = "" THEN Refused("Commit message is required!")
         ELSE [ pc |-> "done",
                err |-> IF response = "errs"
                          THEN "Error when uploading database to the cloud"
                        ELSE IF response = "status" THEN "Upload failed with an error"
                        ELSE "",
                sent |-> TRUE,
                Message |-> push.flagMsg,
                Database |-> IF push.flagDB = "" THEN "file.db" ELSE push.flagDB,
                Author |-> PushAuthor(push),
                Email |-> PushEmail(push) ]
  /\ UNCHANGED << cid, tid, storeVars >>

InitPush ==
  /\ push \in PushInputs
  /\ procs = [ p \in Procs |-> Idle ]
  /\ locks = {}
  /\ done = << >>
  /\ files = NoFiles
  /\ meta = NoFiles
  /\ dirs = {}
  /\ last = NoCall
  /\ prev = NoCall
  /\ before = NoFiles
  /\ cid = CidIdle
  /\ tid = TidIdle

NextPush == RunPush

SpecPush == InitPush /\ [][NextPush]_vars

\* Nothing is uploaded without an author name, an author email and a message,
\* and the command touches no file of the store.
PushValidated ==
  /\ files = NoFiles /\ meta = NoFiles
  /\ (push.pc = "done" /\ push.sent) =>
       push.Author # "" /\ push.Email # "" /\ push.Message # ""

\* ------------------------------------------------------------------------
\* Properties of the hashed byte sequences.

Has(s, t) == \E i \in 1..Len(s) : s[i] = t

HeaderLine(key, body) == key \o <<" ">> \o body \o <<"\n">>

Ident(name, email, ts) ==
  name \o <<" ", "<">> \o email \o <<">", " ">> \o FormatUnixDate(ts)

PinnedCommitFormat(c, withCommitter) ==
  HeaderLine(<<"t", "r", "e", "e">>, c.Tree)
  \o (IF c.Parent # EmptyStr
        THEN HeaderLine(<<"p", "a", "r", "e", "n", "t">>, c.Parent) ELSE << >>)
  \o HeaderLine(<<"a", "u", "t", "h", "o", "r">>,
                Ident(c.AuthorName, c.AuthorEmail, c.Timestamp))
  \o (IF withCommitter
        THEN HeaderLine(<<"c", "o", "m", "m", "i", "t", "t", "e", "r">>,
                        Ident(c.CommitterName, c.CommitterEmail, c.Timestamp))
        ELSE << >>)
  \o <<"\n">> \o c.Message \o <<NUL>>

CommitterGiven(c) == c.CommitterName # EmptyStr \/ c.CommitterEmail # EmptyStr

\* C8 as stated: the hashed bytes are the pinned format, with a committer line
\* exactly when a committer name or email is given, and two commits that
\* differ in a field other than ID are hashed from different byte sequences.
C8_AsStated ==
  cid.pc = "done" =>
    /\ cid.buf1 = PinnedCommitFormat(cid.c1, CommitterGiven(cid.c1))
    /\ cid.buf2 = PinnedCommitFormat(cid.c2, CommitterGiven(cid.c2))
    /\ (cid.c1 # cid.c2 => cid.buf1 # cid.buf2)

\* The part of a commit the buffer is built from: the timestamp as UnixDate
\* prints it, and the committer only when a committer email is present.
HashedFields(c) ==
  << c.Tree, c.Parent, c.AuthorName, c.AuthorEmail, FormatUnixDate(c.Timestamp),
     c.CommitterEmail,
     IF c.CommitterEmail # EmptyStr THEN c.CommitterName ELSE EmptyStr,
     c.Message >>

\* Header fields that cannot be mistaken for the format's own delimiters.
PlainFields(c) ==
  \A f \in { c.Tree, c.Parent, c.AuthorName, c.AuthorEmail,
              c.CommitterName, c.CommitterEmail } :
    ~Has(f, "\n") /\ ~Has(f, "<") /\ ~Has(f, ">")

\* C8 as amended: the hashed bytes are the pinned format with a committer line
\* exactly when the committer email is non-empty; two commits whose tree,
\* parent, names and emails hold no newline, '<' or '>' are hashed from
\* different byte sequences whenever they differ in tree, parent, author,
\* printed timestamp, message, committer email, or committer name beside a
\* committer email; commits equal in those are hashed alike.
C8_CommitBuffer ==
  cid.pc = "done" =>
    /\ cid.buf1 = PinnedCommitFormat(cid.c1, cid.c1.CommitterEmail # EmptyStr)
    /\ cid.buf2 = PinnedCommitFormat(cid.c2, cid.c2.CommitterEmail # EmptyStr)
    /\ (PlainFields(cid.c1) /\ PlainFields(cid.c2)
          /\ HashedFields(cid.c1) # HashedFields(cid.c2)
        => cid.buf1 # cid.buf2 /\ cid.id1 # cid.id2)
    /\ (HashedFields(cid.c1) = HashedFields(cid.c2)
        => cid.buf1 = cid.buf2 /\ cid.id1 = cid.id2)

\* Two plain commits, one with a committer name and no email, the other with
\* a committer email, have been hashed.
C8_Witness ==
  /\ cid.pc = "done"
  /\ PlainFields(cid.c1) /\ PlainFields(cid.c2)
  /\ cid.c1.CommitterName # EmptyStr /\ cid.c1.CommitterEmail = EmptyStr
  /\ cid.c2.CommitterEmail # EmptyStr /\ cid.c2.Parent # EmptyStr
  /\ cid.buf1 # cid.buf2

PlainEntry(j) ==
  /\ ~Has(j.AType, "\n") /\ ~Has(j.ShaSum, "\n") /\ ~Has(j.Name, "\n")
  /\ ~Has(j.AType, NUL) /\ ~Has(j.ShaSum, NUL)

RECURSIVE Concat(_)
Concat(ss) == IF ss = << >> THEN << >> ELSE Head(ss) \o Concat(Tail(ss))

PinnedTreeFormat(entries) ==
  Concat([i \in 1..Len(entries) |->
            entries[i].AType \o <<NUL>> \o entries[i].ShaSum \o <<NUL>>
            \o entries[i].Name \o <<"\n">>])

\* C9 as stated: a permutation that yields a different ordered list is hashed
\* from a different byte sequence, whatever bytes the entry fields hold.
C9_AsStated ==
  tid.pc = "done" =>
    /\ tid.buf1 = PinnedTreeFormat(tid.e1)
    /\ (tid.e1 # tid.e2 => tid.buf1 # tid.buf2 /\ tid.id1 # tid.id2)

\* C9 as amended: the hashed bytes are the entries' EntryType, null, ShaSum,
\* null, Name, newline in list order, and a permutation that yields a
\* different ordered list is hashed from a different byte sequence provided no
\* entry field holds a newline and no EntryType or ShaSum holds a null byte.
C9_TreeBuffer ==
  tid.pc = "done" =>
    /\ tid.buf1 = PinnedTreeFormat(tid.e1)
    /\ tid.buf2 = PinnedTreeFormat(tid.e2)
    /\ ((\A i \in 1..Len(tid.e1) : PlainEntry(tid.e1[i])) /\ tid.e1 # tid.e2
        => tid.buf1 # tid.buf2 /\ tid.id1 # tid.id2)

\* A list of plain entries, one of them with a null byte in its name, and a
\* reordering of it have been hashed.
C9_Witness ==
  /\ tid.pc = "done"
  /\ Len(tid.e1) >= 2
  /\ tid.e1 # tid.e2
  /\ \A i \in 1..Len(tid.e1) : PlainEntry(tid.e1[i])
  /\ \E i \in 1..Len(tid.e1) : Has(tid.e1[i].Name, NUL)
  /\ tid.buf1 # tid.buf2

\* ------------------------------------------------------------------------
\* Properties of the object store.

IsPut(call) == call.op = "storeDatabase"

\* C1: two storeDatabase calls in a row with the same bytes return the same
\* hash, the second adds and changes nothing, and one object stands under
\* that hash, as long as the bytes and, when it is a database file, equal to
\* them; with different bytes the two hashes differ and both name stored
\* objects.
C1_PutBlobTwice ==
  (IsPut(last) /\ IsPut(prev)) =>
    /\ ~last.err /\ ~prev.err
    /\ Exists(files, last.ret) /\ Exists(files, prev.ret)
    /\ files[last.ret].size = Len(last.arg)
    /\ files[last.ret].kind = "raw" => files[last.ret].data = last.arg
    /\ last.arg = prev.arg =>
         /\ last.ret = prev.ret
         /\ files = before
         /\ Cardinality({ h \in DOMAIN files : h = << Sha256(last.arg) >> }) = 1
    /\ last.arg # prev.arg =>
         /\ last.ret # prev.ret
         /\ Cardinality({ last.ret, prev.ret } \cap DOMAIN files) = 2
         /\ Cardinality(DOMAIN files) = Cardinality(DOMAIN before \cup {last.ret})

\* The same bytes have been stored twice in a row, into a store that held
\* other objects, and then different bytes twice.
C1_Witness ==
  /\ IsPut(last) /\ IsPut(prev)
  /\ last.arg = prev.arg
  /\ last.arg = Abc
  /\ Cardinality(DOMAIN files) >= 3
  /\ Exists(files, << Sha256(Abcd) >>)

\* C2: when an object already stands under the hash of the bytes, the call
\* is a no-op only if that object equals the bytes, and fails, changing
\* nothing, if it differs.
C2_AsStated ==
  (IsPut(last) /\ Exists(before, last.ret)) =>
    IF before[last.ret] = RawFile(last.arg)
      THEN ~last.err /\ files = before
      ELSE last.err /\ files = before

\* C3: every file of files/ stands under the identity computed from its
\* content: createCommitID of a commit record, createDBTreeID of a tree
\* record's entries, the SHA-256 of a blob.
C3_AsStated ==
  \A h \in DOMAIN files :
    /\ files[h].kind = "commit" => h = createCommitID(files[h].data)
    /\ files[h].kind = "tree" => h = createDBTreeID(files[h].data.Entries)
    /\ files[h].kind = "raw" => h = << Sha256(files[h].data) >>

\* C4: an object, once stored under a hash, keeps its content and its place
\* through every later call.
C4_AsStated ==
  \A h \in DOMAIN before : Exists(files, h) /\ files[h] = before[h]

LacksRequired(c) ==
  \/ c.Message = EmptyStr
  \/ c.Tree = EmptyStr
  \/ c.AuthorName = EmptyStr
  \/ c.AuthorEmail = EmptyStr

\* C5: storeCommit of a commit that lacks its message, tree reference, author
\* name or author email reports an error and leaves every file as it was.
C5_AsStated ==
  (last.op = "storeCommit" /\ LacksRequired(last.arg)) =>
    last.err /\ files = before

\* ------------------------------------------------------------------------
\* Properties of the index.

OthersKept(d) ==
  \A f \in DOMAIN before \cup DOMAIN meta :
    f # IndexFile(d) => Exists(before, f) /\ Exists(meta, f) /\ meta[f] = before[f]

PriorIndex(d) == IF getIndex(before, d).err THEN << >> ELSE getIndex(before, d).index

\* C10: after an append of c, getIndex returns the entries that were there
\* before, in order, followed by c itself, also when there was no index, and
\* no other file of meta/ has changed.
C10_AsStated ==
  last.op = "append" =>
    /\ ~getIndex(meta, last.arg.d).err
    /\ getIndex(meta, last.arg.d).index = Append(PriorIndex(last.arg.d), last.arg.c)
    /\ OthersKept(last.arg.d)

\* What does hold of an append: getIndex returns the entries that were there
\* before, in order, followed by c with every invalid UTF-8 byte of its
\* string fields replaced by U+FFFD, and no other file of meta/ has changed.
IndexRoundTripCoerced ==
  last.op = "append" =>
    /\ ~getIndex(meta, last.arg.d).err
    /\ getIndex(meta, last.arg.d).index
         = Append(PriorIndex(last.arg.d), CoerceCommit(last.arg.c))
    /\ OthersKept(last.arg.d)

\* ------------------------------------------------------------------------
\* Properties of concurrent read-modify-write.

StoredIndex(d) == IF getIndex(meta, d).err THEN << >> ELSE getIndex(meta, d).index
StoredBranches(d) ==
  IF getBranches(meta, d).err THEN << >> ELSE getBranches(meta, d).branches

Count(s, x) == Cardinality({ i \in 1..Len(s) : s[i] = x })

\* C6: no update is lost.  Once the invocations have finished, the stored
\* index of the database holds every commit they appended, as often as it was
\* appended, and nothing else, and every branch they set is in the stored
\* branch table.
C6_AsStated ==
  (\A p \in Procs : procs[p].pc = "idle") =>
    \A d \in RaceDbs :
      /\ Len(StoredIndex(d)) = Len(done[d].index)
      /\ \A c \in IndexCommits :
           Count(StoredIndex(d), CoerceCommit(c)) = Count(done[d].index, c)
      /\ \A h \in done[d].heads :
           \E i \in 1..Len(StoredBranches(d)) : StoredBranches(d)[i].Name = h[1]

Written(d) == { p \in Procs : procs[p].pc = "written" /\ procs[p].d = d }

\* Under the lock (SpecLocked) the stored index of each database holds the
\* commits of all finished appends, in order, followed only by the commit of
\* an append that has written and not yet finished; each branch a finished
\* update named has the head that update gave it, unless an update that has
\* written and not yet finished has moved it.
LockedNoLostUpdate ==
  \A d \in RaceDbs :
    /\ Len(StoredIndex(d))
         = Len(done[d].index)
           + Cardinality({ p \in Written(d) : procs[p].kind = "append" })
    /\ \A i \in 1..Len(done[d].index) :
         StoredIndex(d)[i] = CoerceCommit(done[d].index[i])
    /\ \A p \in Written(d) :
         procs[p].kind = "append" =>
           StoredIndex(d)[Len(StoredIndex(d))] = CoerceCommit(procs[p].ask.c)
    /\ \A h \in done[d].heads :
         \/ \E i \in 1..Len(StoredBranches(d)) :
              StoredBranches(d)[i] = [ Name |-> h[1], Commit |-> h[2] ]
         \/ \E p \in Written(d) :
              /\ procs[p].kind = "branch"
              /\ procs[p].ask.name = h[1]
              /\ \E i \in 1..Len(StoredBranches(d)) :
                   StoredBranches(d)[i]
                     = [ Name |-> h[1], Commit |-> procs[p].ask.commit ]

\* ------------------------------------------------------------------------
\* Properties of object writes.

\* The bytes are a whole object whose hash is h.
WholeUnder(content, h) ==
  \/ content.kind = "raw" /\ h = << Sha256(content.data) >>
  \/ content.kind = "commit" /\ h = createCommitID(content.data)
  \/ content.kind = "tree" /\ h = createDBTreeID(content.data.Entries)

\* C7: whoever reads files/<h>, while a store call is writing or after it
\* died, finds no object or the whole content whose hash is h.
C7_AsStated ==
  (last.op = "read" /\ ~last.err) => WholeUnder(last.ret, last.arg)

====
